---- MODULE Spec2Model ----
(***************************************************************************)
(* Model of the periodic-cell kernel src/micmec/pes/cell.c.                *)
(*                                                                         *)
(* Numbers.  The C code works on doubles.  The model works on a fixed-point*)
(* grid on which every product, sum and difference the code forms is exact *)
(* in the model, and the inputs are taken from that grid:                  *)
(*   - lengths (rvecs, delta, cart, rspacings) are whole numbers;          *)
(*   - reciprocal lengths (gvecs, gspacings) are counted in tenths: the    *)
(*     model integer g stands for the double g / GU, GU = 10;              *)
(*   - volume is a whole number;                                           *)
(*   - sqrt rounds down to the grid (ISqrt), 1.0/0.0 is Infinity.          *)
(* C arrays keep their 0-based indices: double[9] is a function on 0..8.   *)
(***************************************************************************)
EXTENDS Integers, Sequences, FiniteSets, TLC

VARIABLES
  cell,      \* the cell_type record *cell
  op,        \* name of the last function called
  callNvec,  \* nvec argument of the last cell_update call
  full,      \* full argument of the last cell_copy_* call
  out,       \* caller's output buffer after the last cell_copy_* call
  fault,     \* the last cell_copy_* call indexed outside an array
  delta,     \* caller's double[3] buffer (delta / cart)
  center,    \* caller's long[3] buffer (center)
  r,         \* r argument of the last cell_add_vec call
  x,         \* the values the local x took in the last cell_mic call
  delta0,    \* delta before the last call
  delta00,   \* delta before the call before the last
  center0,   \* center before the last call
  op0,       \* name of the call before the last
  calls      \* number of calls made on the buffers since they were loaded

cellvars == <<cell, op, callNvec, full, out, fault>>
bufvars == <<delta, center, r, x, delta0, delta00, center0, op0, calls>>
vars == <<cell, op, callNvec, full, out, fault,
          delta, center, r, x, delta0, delta00, center0, op0, calls>>

----------------------------------------------------------------------------
(* Number representation *)

\* one unit of a reciprocal length, in model ticks (0.1 is 1 tick)
GU == 5 + 5

\* the double +infinity (result of 1.0/sqrt(0.0))
Infinity == 10 ^ 6

\* content of a caller buffer slot that no call has written
Untouched == 0 - Infinity

Dims == 0 .. 3

RECURSIVE SqrtSearch(_, _, _)
SqrtSearch(n, lo, hi) ==
  IF lo >= hi THEN lo
  ELSE LET mid == (lo + hi + 1) \div 2
       IN IF mid * mid <= n THEN SqrtSearch(n, mid, hi)
          ELSE SqrtSearch(n, lo, mid - 1)

\* sqrt() of <math.h> on the grid: the largest whole number whose square is <= n
ISqrt(n) == SqrtSearch(n, 0, n)

\* ceil() of <math.h> applied to the exact quotient num/den, den > 0
Ceil(num, den) == 0 - ((0 - num) \div den)

\* fabs() of <math.h>
Fabs(v) == IF v < 0 THEN 0 - v ELSE v

\* 1.0/sqrt(sumsq) for a sum of squares of grid values: the result is a length
\* when sumsq comes from gvecs and a reciprocal length when it comes from rvecs;
\* in both cases it is GU / sqrt(sumsq) in model ticks
InvSqrt(sumsq) ==
  IF sumsq = 0 THEN Infinity ELSE ISqrt((GU * GU) \div sumsq)

\* a C array double[9] / double[3] given by its elements
Arr9(t) == [i \in 0 .. 8 |-> t[i + 1]]
Arr3(t) == [i \in 0 .. 2 |-> t[i + 1]]

----------------------------------------------------------------------------
(* cell_new, cell_update *)

\* malloc'ed storage: no field is initialised; v is the indeterminate content
cell_new(v) ==
  [nvec |-> v,
   rvecs |-> [i \in 0 .. 8 |-> v],
   gvecs |-> [i \in 0 .. 8 |-> v],
   rspacings |-> [i \in 0 .. 2 |-> v],
   gspacings |-> [i \in 0 .. 2 |-> v],
   volume |-> v]

\* UpdateVolume with the fabs of case 3 left out
UpdateVolumeNoFabs(c, rvecsA, nvecA) ==
  CASE nvecA = 0 -> 0
    [] nvecA = 1 ->
         ISqrt(rvecsA[0]*rvecsA[0] + rvecsA[1]*rvecsA[1] + rvecsA[2]*rvecsA[2])
    [] nvecA = 2 ->
         LET tmp1 == rvecsA[0]*rvecsA[3] + rvecsA[1]*rvecsA[4] + rvecsA[2]*rvecsA[5]
             tmp == (rvecsA[0]*rvecsA[0] + rvecsA[1]*rvecsA[1] + rvecsA[2]*rvecsA[2]) *
                    (rvecsA[3]*rvecsA[3] + rvecsA[4]*rvecsA[4] + rvecsA[5]*rvecsA[5])
                    - tmp1 * tmp1
         IN IF tmp > 0 THEN ISqrt(tmp) ELSE 0
    [] nvecA = 3 ->
         rvecsA[0] * (rvecsA[4]*rvecsA[8] - rvecsA[5]*rvecsA[7]) +
         rvecsA[1] * (rvecsA[5]*rvecsA[6] - rvecsA[3]*rvecsA[8]) +
         rvecsA[2] * (rvecsA[3]*rvecsA[7] - rvecsA[4]*rvecsA[6])
    [] OTHER -> c.volume

\* the switch(nvec) of cell_update: it has no default, so any other nvec
\* leaves (*cell).volume as it was
UpdateVolume(c, rvecsA, nvecA) ==
  CASE nvecA = 0 -> 0
    [] nvecA = 1 ->
         ISqrt(rvecsA[0]*rvecsA[0] + rvecsA[1]*rvecsA[1] + rvecsA[2]*rvecsA[2])
    [] nvecA = 2 ->
         LET tmp1 == rvecsA[0]*rvecsA[3] + rvecsA[1]*rvecsA[4] + rvecsA[2]*rvecsA[5]
             tmp == (rvecsA[0]*rvecsA[0] + rvecsA[1]*rvecsA[1] + rvecsA[2]*rvecsA[2]) *
                    (rvecsA[3]*rvecsA[3] + rvecsA[4]*rvecsA[4] + rvecsA[5]*rvecsA[5])
                    - tmp1 * tmp1
         IN IF tmp > 0 THEN ISqrt(tmp) ELSE 0
    [] nvecA = 3 ->
         Fabs(rvecsA[0] * (rvecsA[4]*rvecsA[8] - rvecsA[5]*rvecsA[7]) +
              rvecsA[1] * (rvecsA[5]*rvecsA[6] - rvecsA[3]*rvecsA[8]) +
              rvecsA[2] * (rvecsA[3]*rvecsA[7] - rvecsA[4]*rvecsA[6]))
    [] OTHER -> c.volume

\* the spacings loop of cell_update
UpdateSpacing(v, i) ==
  InvSqrt(v[3*i]*v[3*i] + v[3*i+1]*v[3*i+1] + v[3*i+2]*v[3*i+2])

\* void cell_update(cell_type* cell, double *rvecs, double *gvecs, int nvec)
cell_update(c, rvecsA, gvecsA, nvecA) ==
  [nvec |-> nvecA,
   rvecs |-> [i \in 0 .. 8 |-> rvecsA[i]],
   gvecs |-> [i \in 0 .. 8 |-> gvecsA[i]],
   rspacings |-> [i \in 0 .. 2 |-> UpdateSpacing(gvecsA, i)],
   gspacings |-> [i \in 0 .. 2 |-> UpdateSpacing(rvecsA, i)],
   volume |-> UpdateVolume(c, rvecsA, nvecA)]

----------------------------------------------------------------------------
(* cell_copy_rvecs, cell_copy_gvecs, cell_copy_rspacings, cell_copy_gspacings *)

\* for (i=0; i<n; i++) dst[i] = src[i];  with src an array of len elements and
\* dst the caller's buffer of len elements.  An iteration with i >= len indexes
\* both arrays out of bounds: the outcome is undefined and is recorded as a fault.
CopyLoop(src, len, dst, n) ==
  [buf |-> [i \in 0 .. len - 1 |-> IF i < n THEN src[i] ELSE dst[i]],
   fault |-> n > len]

\* void cell_copy_rvecs(cell_type* cell, double *rvecs, int full)
cell_copy_rvecs(c, buf, fullA) ==
  CopyLoop(c.rvecs, 9, buf, IF fullA THEN 9 ELSE c.nvec * 3)

\* void cell_copy_gvecs(cell_type* cell, double *gvecs, int full)
cell_copy_gvecs(c, buf, fullA) ==
  CopyLoop(c.gvecs, 9, buf, IF fullA THEN 9 ELSE c.nvec * 3)

\* void cell_copy_rspacings(cell_type* cell, double *rspacings, int full)
cell_copy_rspacings(c, buf, fullA) ==
  CopyLoop(c.rspacings, 3, buf, IF fullA THEN 3 ELSE c.nvec)

\* void cell_copy_gspacings(cell_type* cell, double *gspacings, int full)
cell_copy_gspacings(c, buf, fullA) ==
  CopyLoop(c.gspacings, 3, buf, IF fullA THEN 3 ELSE c.nvec)

----------------------------------------------------------------------------
(* cell_mic, cell_to_center, cell_add_vec *)

\* gvecs[3k]*v[0] + gvecs[3k+1]*v[1] + gvecs[3k+2]*v[2], in ticks of 1/GU
Frac(c, v, k) ==
  c.gvecs[3*k] * v[0] + c.gvecs[3*k+1] * v[1] + c.gvecs[3*k+2] * v[2]

\* MicX rounding the half-way case up: floor(f + 0.5) in place of ceil(f - 0.5)
MicXHalfUp(c, d, k) == (2 * Frac(c, d, k) + GU) \div (2 * GU)

\* x = ceil(gvecs[3k]*delta[0] + gvecs[3k+1]*delta[1] + gvecs[3k+2]*delta[2] - 0.5)
MicX(c, d, k) == Ceil(2 * Frac(c, d, k) - GU, 2 * GU)

\* MicStep with the sign of the correction wrong: delta[i] += x*rvecs[3k+i]
MicStepPlus(c, d, k) ==
  [i \in 0 .. 2 |-> d[i] + MicX(c, d, k) * c.rvecs[3*k + i]]

\* delta[i] -= x*rvecs[3k+i], i = 0,1,2
MicStep(c, d, k) ==
  [i \in 0 .. 2 |-> d[i] - MicX(c, d, k) * c.rvecs[3*k + i]]

\* void cell_mic(double *delta, cell_type* cell): the delta it leaves, and the
\* values its local x took (0 for a direction it returned before)
cell_mic(d, c) ==
  IF c.nvec = 0 THEN [delta |-> d, x |-> Arr3(<<0, 0, 0>>)]
  ELSE LET d1 == MicStep(c, d, 0)
           x0 == MicX(c, d, 0)
       IN IF c.nvec = 1 THEN [delta |-> d1, x |-> Arr3(<<x0, 0, 0>>)]
          ELSE LET d2 == MicStep(c, d1, 1)
                   x1 == MicX(c, d1, 1)
               IN IF c.nvec = 2 THEN [delta |-> d2, x |-> Arr3(<<x0, x1, 0>>)]
                  ELSE [delta |-> MicStep(c, d2, 2),
                        x |-> Arr3(<<x0, x1, MicX(c, d2, 2)>>)]

\* CenterOf without the negation
CenterOfNoNeg(c, cart, k) == Ceil(2 * Frac(c, cart, k) - GU, 2 * GU)

\* center[k] = -ceil(gvecs[3k]*cart[0] + gvecs[3k+1]*cart[1] + gvecs[3k+2]*cart[2] - 0.5)
CenterOf(c, cart, k) == 0 - Ceil(2 * Frac(c, cart, k) - GU, 2 * GU)

\* void cell_to_center(double *cart, cell_type* cell, long *center): the
\* center buffer it leaves
cell_to_center(cart, c, centerA) ==
  IF c.nvec = 0 THEN centerA
  ELSE LET c1 == [centerA EXCEPT ![0] = CenterOf(c, cart, 0)]
       IN IF c.nvec = 1 THEN c1
          ELSE LET c2 == [c1 EXCEPT ![1] = CenterOf(c, cart, 1)]
               IN IF c.nvec = 2 THEN c2
                  ELSE [c2 EXCEPT ![2] = CenterOf(c, cart, 2)]

\* AddStep reading rvecs by column: rvecs[3i+k] in place of rvecs[3k+i]
AddStepTransposed(c, d, rA, k) ==
  [i \in 0 .. 2 |-> d[i] + rA[k] * c.rvecs[3*i + k]]

\* delta[i] += r[k]*rvecs[3k+i], i = 0,1,2
AddStep(c, d, rA, k) ==
  [i \in 0 .. 2 |-> d[i] + rA[k] * c.rvecs[3*k + i]]

\* cell_add_vec without its "if (nvec == 0) return;"
cell_add_vec_NoReturn(d, c, rA) ==
  LET d1 == AddStep(c, d, rA, 0)
  IN IF c.nvec = 1 THEN d1
     ELSE LET d2 == AddStep(c, d1, rA, 1)
          IN IF c.nvec = 2 THEN d2
             ELSE AddStep(c, d2, rA, 2)

\* void cell_add_vec(double *delta, cell_type* cell, long* r): the delta it leaves
cell_add_vec(d, c, rA) ==
  IF c.nvec = 0 THEN d
  ELSE LET d1 == AddStep(c, d, rA, 0)
       IN IF c.nvec = 1 THEN d1
          ELSE LET d2 == AddStep(c, d1, rA, 1)
               IN IF c.nvec = 2 THEN d2
                  ELSE AddStep(c, d2, rA, 2)

----------------------------------------------------------------------------
(* Inputs *)

\* largest coordinate of the displacement grid
MaxD == 1

\* largest number of calls made on one loaded displacement
MaxCalls == 2

\* the values of nvec passed to cell_update: 0..3 and one value on each side
NvecInputs == -1 .. 4

\* what a field of malloc'ed storage may hold before it is first written
Indeterminate == {0, 1}

\* cubic cell of side 10 and its reciprocal vectors 0.1*I
Cubic10R == Arr9(<<10, 0, 0,   0, 10, 0,   0, 0, 10>>)
Cubic10G == Arr9(<<1, 0, 0,   0, 1, 0,   0, 0, 1>>)

\* skewed cell (2,0,0), (2,2,0), (2,2,2) and its reciprocal vectors
\* (0.5,-0.5,0), (0,0.5,-0.5), (0,0,0.5)
SkewR == Arr9(<<2, 0, 0,   2, 2, 0,   2, 2, 2>>)
SkewG == Arr9(<<5, -5, 0,   0, 5, -5,   0, 0, 5>>)

\* SkewR with rows 0 and 1 swapped
SwapR == Arr9(<<2, 2, 0,   2, 0, 0,   2, 2, 2>>)

\* reciprocal vectors of a wire: only row 0 is set, the inactive rows are zero
WireG == Arr9(<<5, 0, 0,   0, 0, 0,   0, 0, 0>>)

\* direct vectors passed to cell_update
RvecsInputs ==
  {Cubic10R, SkewR, SwapR,
   Arr9(<<0, 0, 0,   2, 2, 0,   2, 2, 2>>),     \* row 0 is zero
   Arr9(<<2, 0, 0,   4, 0, 0,   2, 2, 2>>),     \* rows 0 and 1 collinear
   Arr9(<<2, 2, 0,   -2, -2, 0,   0, 0, 3>>),   \* rows 0 and 1 anti-parallel
   Arr9(<<2, 0, 0,   2, 2, 0,   4, 2, 0>>),     \* rows 0, 1, 2 coplanar
   Arr9(<<2, 0, 0,   0, 3, 0,   1, 1, 2>>),     \* SkewR row 0, other rows differ
   Arr9(<<2, 0, 0,   2, 2, 0,   0, 0, 0>>)}     \* SkewR rows 0 and 1, row 2 zero

\* reciprocal vectors passed to cell_update (cell_update does not relate them
\* to the direct vectors)
GvecsInputs == {Cubic10G, SkewG, WireG}

\* the cells the displacement functions are run on: every pairing of these;
\* (Cubic10R, Cubic10G) and (SkewR, SkewG) are dual, the others are not
MicRvecs == {Cubic10R, SkewR, SwapR}
MicGvecs == {Cubic10G, SkewG}

\* displacement vectors: the grid -MaxD..MaxD, the same grid in steps of 5
\* (half a side of the cubic cell), and the vector (7,-3,12)
DeltaInputs ==
  {Arr3(<<a, b, c>>) : a \in -MaxD .. MaxD, b \in -MaxD .. MaxD, c \in -MaxD .. MaxD}
  \cup {Arr3(<<5*a, 5*b, 5*c>>) :
          a \in -MaxD .. MaxD, b \in -MaxD .. MaxD, c \in -MaxD .. MaxD}
  \cup {Arr3(<<7, -3, 12>>)}

\* a caller's double buffer of len elements that nothing has been copied into
FreshBuf(len) == [i \in 0 .. len - 1 |-> Untouched]

\* the content of the caller's long[3] buffer before any call writes it
LoadCenter == Arr3(<<7, 7, 7>>)

Zero3 == Arr3(<<0, 0, 0>>)

Neg(v) == [i \in 0 .. 2 |-> 0 - v[i]]

----------------------------------------------------------------------------
(* The cell: construction, update, accessors *)

BufIdle ==
  /\ delta = Zero3 /\ delta0 = Zero3 /\ delta00 = Zero3
  /\ center = LoadCenter /\ center0 = LoadCenter
  /\ r = Zero3 /\ x = Zero3
  /\ op0 = "none" /\ calls = 0

\* cell_new() followed by the first cell_update, here with nvec in 0..3: it
\* writes every field, so nothing of the malloc'ed content is left
Init ==
  /\ \E rv \in RvecsInputs, gv \in GvecsInputs, n \in Dims, v \in Indeterminate :
       /\ cell = cell_update(cell_new(v), rv, gv, n)
       /\ callNvec = n
  /\ op = "cell_update"
  /\ full = FALSE /\ out = FreshBuf(9) /\ fault = FALSE
  /\ BufIdle

CellUpdate ==
  /\ \E rv \in RvecsInputs, gv \in GvecsInputs, n \in NvecInputs :
       /\ cell' = cell_update(cell, rv, gv, n)
       /\ callNvec' = n
  /\ op' = "cell_update"
  /\ full' = FALSE /\ out' = FreshBuf(9) /\ fault' = FALSE
  /\ UNCHANGED bufvars

CellCopyRvecs ==
  /\ \E f \in BOOLEAN :
       LET res == cell_copy_rvecs(cell, FreshBuf(9), f)
       IN full' = f /\ out' = res.buf /\ fault' = res.fault
  /\ op' = "cell_copy_rvecs"
  /\ UNCHANGED <<cell, callNvec>>
  /\ UNCHANGED bufvars

CellCopyGvecs ==
  /\ \E f \in BOOLEAN :
       LET res == cell_copy_gvecs(cell, FreshBuf(9), f)
       IN full' = f /\ out' = res.buf /\ fault' = res.fault
  /\ op' = "cell_copy_gvecs"
  /\ UNCHANGED <<cell, callNvec>>
  /\ UNCHANGED bufvars

CellCopyRspacings ==
  /\ \E f \in BOOLEAN :
       LET res == cell_copy_rspacings(cell, FreshBuf(3), f)
       IN full' = f /\ out' = res.buf /\ fault' = res.fault
  /\ op' = "cell_copy_rspacings"
  /\ UNCHANGED <<cell, callNvec>>
  /\ UNCHANGED bufvars

CellCopyGspacings ==
  /\ \E f \in BOOLEAN :
       LET res == cell_copy_gspacings(cell, FreshBuf(3), f)
       IN full' = f /\ out' = res.buf /\ fault' = res.fault
  /\ op' = "cell_copy_gspacings"
  /\ UNCHANGED <<cell, callNvec>>
  /\ UNCHANGED bufvars

Next ==
  \/ CellUpdate
  \/ CellCopyRvecs
  \/ CellCopyGvecs
  \/ CellCopyRspacings
  \/ CellCopyGspacings

Spec == Init /\ [][Next]_vars

----------------------------------------------------------------------------
(* The displacement functions on a fixed cell *)

\* a cell built by cell_new() and one cell_update with any of the inputs (a
\* volume that cell_update does not write keeps the malloc'ed content), and a
\* loaded displacement
InitMic ==
  /\ \E rv \in MicRvecs, gv \in MicGvecs, n \in NvecInputs, v \in Indeterminate :
       /\ cell = cell_update(cell_new(v), rv, gv, n)
       /\ callNvec = n
  /\ op = "cell_update"
  /\ full = FALSE /\ out = FreshBuf(9) /\ fault = FALSE
  /\ \E d \in DeltaInputs : delta = d /\ delta0 = d /\ delta00 = d
  /\ center = LoadCenter /\ center0 = LoadCenter
  /\ r = Zero3 /\ x = Zero3
  /\ op0 = "none" /\ calls = 0

History ==
  /\ op0' = op
  /\ delta0' = delta /\ delta00' = delta0
  /\ center0' = center
  /\ calls' = calls + 1
  /\ UNCHANGED <<cell, callNvec, full, out, fault>>

CellMic ==
  /\ calls < MaxCalls
  /\ LET res == cell_mic(delta, cell)
     IN delta' = res.delta /\ x' = res.x
  /\ op' = "cell_mic"
  /\ UNCHANGED <<center, r>>
  /\ History

CellToCenter ==
  /\ calls < MaxCalls
  /\ center' = cell_to_center(delta, cell, center)
  /\ op' = "cell_to_center"
  /\ UNCHANGED <<delta, r, x>>
  /\ History

\* r is the center buffer, or the counts x of the last cell_mic, or their negation
CellAddVec ==
  /\ calls < MaxCalls
  /\ \E rA \in {center, x, Neg(x)} :
       /\ delta' = cell_add_vec(delta, cell, rA)
       /\ r' = rA
  /\ op' = "cell_add_vec"
  /\ UNCHANGED <<center, x>>
  /\ History

NextMic ==
  \/ CellMic
  \/ CellToCenter
  \/ CellAddVec

SpecMic == InitMic /\ [][NextMic]_vars

----------------------------------------------------------------------------
(* Vocabulary of the properties *)

Row(m, i) == [j \in 0 .. 2 |-> m[3*i + j]]

Dot(a, b) == a[0]*b[0] + a[1]*b[1] + a[2]*b[2]

Cross(a, b) ==
  [j \in 0 .. 2 |->
     CASE j = 0 -> a[1]*b[2] - a[2]*b[1]
       [] j = 1 -> a[2]*b[0] - a[0]*b[2]
       [] j = 2 -> a[0]*b[1] - a[1]*b[0]]

Max0(v) == IF v > 0 THEN v ELSE 0

\* the n-dimensional content of the first n rows of m, n in 0..3
Content(m, n) ==
  CASE n = 0 -> 0
    [] n = 1 -> ISqrt(Dot(Row(m, 0), Row(m, 0)))
    [] n = 2 -> ISqrt(Max0(Dot(Row(m, 0), Row(m, 0)) * Dot(Row(m, 1), Row(m, 1))
                           - Dot(Row(m, 0), Row(m, 1)) * Dot(Row(m, 0), Row(m, 1))))
    [] n = 3 -> Fabs(Dot(Row(m, 0), Cross(Row(m, 1), Row(m, 2))))

\* 1 / |row i of m|
Spacing(m, i) ==
  IF Row(m, i) = Zero3 THEN Infinity
  ELSE ISqrt((GU * GU) \div Dot(Row(m, i), Row(m, i)))

\* the first n rows of m are linearly dependent with coefficients in -2..2:
\* a zero row, two collinear rows, three coplanar rows
Degenerate(m, n) ==
  \E k \in [0 .. n - 1 -> -2 .. 2] :
    /\ \E i \in 0 .. n - 1 : k[i] # 0
    /\ \A j \in 0 .. 2 :
         (IF n > 0 THEN k[0] * m[j] ELSE 0)
         + (IF n > 1 THEN k[1] * m[3 + j] ELSE 0)
         + (IF n > 2 THEN k[2] * m[6 + j] ELSE 0) = 0

\* m1 and m2 have the same first n rows
SameActiveRows(m1, m2, n) == \A i \in 0 .. 3*n - 1 : m1[i] = m2[i]

\* the active rows of gvecs are dual to the active rows of rvecs
Dual(c) ==
  \A i \in 0 .. c.nvec - 1 : \A j \in 0 .. c.nvec - 1 :
    Dot(Row(c.gvecs, i), Row(c.rvecs, j)) = IF i = j THEN GU ELSE 0

\* m = ceil(num/den - 0.5) for den > 0, said without Ceil:  m - 1 < num/den - 1/2 <= m
IsCeilHalf(m, num, den) ==
  /\ 2*den*(m - 1) < 2*num - den
  /\ 2*num - den <= 2*den*m

IsCubic10 ==
  cell.nvec = 3 /\ cell.rvecs = Cubic10R /\ cell.gvecs = Cubic10G

CopyOps ==
  {"cell_copy_rvecs", "cell_copy_gvecs", "cell_copy_rspacings", "cell_copy_gspacings"}

\* the array of the cell the last cell_copy_* call reads
CopySource ==
  CASE op = "cell_copy_rvecs" -> cell.rvecs
    [] op = "cell_copy_gvecs" -> cell.gvecs
    [] op = "cell_copy_rspacings" -> cell.rspacings
    [] op = "cell_copy_gspacings" -> cell.gspacings

\* what the last cell_copy_* call yields when called with full = true
FullCopy ==
  CASE op = "cell_copy_rvecs" -> cell_copy_rvecs(cell, FreshBuf(9), TRUE).buf
    [] op = "cell_copy_gvecs" -> cell_copy_gvecs(cell, FreshBuf(9), TRUE).buf
    [] op = "cell_copy_rspacings" -> cell_copy_rspacings(cell, FreshBuf(3), TRUE).buf
    [] op = "cell_copy_gspacings" -> cell_copy_gspacings(cell, FreshBuf(3), TRUE).buf

\* number of elements the last cell_copy_* call is to write: 9 or 3 with full,
\* nvec*3 or nvec without
CopyCount ==
  LET len == IF op \in {"cell_copy_rvecs", "cell_copy_gvecs"} THEN 9 ELSE 3
  IN IF full THEN len ELSE cell.nvec * (len \div 3)

Written == {i \in DOMAIN out : out[i] # Untouched}

----------------------------------------------------------------------------
(* Properties of the cell: Spec *)

\* C1: a cell_update call whose nvec is outside 0..3 is rejected and aborts the
\* update: every field of the Cell is the same after the call as before it.
C1_InvalidDimensionRejected ==
  [][(op' = "cell_update" /\ callNvec' \notin Dims) => cell' = cell]_vars

\* C2: the derived fields are never stale: in every reachable state rspacings,
\* gspacings and volume are the values derived from the stored gvecs, rvecs and
\* nvec (a derived volume exists for nvec in 0..3 only).
C2_NeverStale ==
  /\ \A i \in 0 .. 2 :
       /\ cell.rspacings[i] = Spacing(cell.gvecs, i)
       /\ cell.gspacings[i] = Spacing(cell.rvecs, i)
  /\ cell.nvec \in Dims
  /\ cell.volume = Content(cell.rvecs, cell.nvec)

\* C2 for nvec in 0..3 only: the spacings are always the derived ones, and the
\* volume is whenever the stored nvec is in 0..3.
C2_FreshForValidNvec ==
  /\ \A i \in 0 .. 2 :
       /\ cell.rspacings[i] = Spacing(cell.gvecs, i)
       /\ cell.gspacings[i] = Spacing(cell.rvecs, i)
  /\ (cell.nvec \in Dims => cell.volume = Content(cell.rvecs, cell.nvec))

\* C3: for nvec in 0..3 the stored volume is non-negative, is the
\* nvec-dimensional content of the first nvec rows of rvecs, is 0 when nvec = 0
\* or the active rows are degenerate, and is the same for any rvecs with the
\* same first nvec rows.
C3_Volume ==
  cell.nvec \in Dims =>
    /\ cell.volume >= 0
    /\ cell.volume = Content(cell.rvecs, cell.nvec)
    /\ (cell.nvec = 0 \/ Degenerate(cell.rvecs, cell.nvec)) => cell.volume = 0
    /\ \A rv \in RvecsInputs :
         SameActiveRows(rv, cell.rvecs, cell.nvec) =>
           cell_update(cell, rv, cell.gvecs, cell.nvec).volume = cell.volume

\* the rows (2,2,0), (2,0,0), (2,2,2) have a negative triple product, -8
C3_Witness ==
  /\ op = "cell_update" /\ cell.nvec = 3
  /\ cell.rvecs = SwapR
  /\ cell.volume = 8

\* C7: a cell_copy_* call with full = true writes exactly 9 (3) elements, with
\* full = false exactly nvec*3 (nvec) elements; the elements written equal the
\* same elements of the full = true result, every other slot of the buffer is
\* untouched, and no element outside the arrays is accessed.
C7_CopyModes ==
  op \in CopyOps =>
    /\ ~fault
    /\ Written = 0 .. CopyCount - 1
    /\ \A i \in Written : out[i] = FullCopy[i]

\* C7 for the Cells whose nvec is at most 3.
C7_CopyModesForValidNvec == cell.nvec <= 3 => C7_CopyModes

----------------------------------------------------------------------------
(* Properties of the displacement functions: SpecMic *)

\* C4 as stated: in the cubic cell of side 10 cell_mic leaves every component
\* in [-5,5), lower bound included and upper bound excluded.
C4_WrapsIntoLowerClosed ==
  (op = "cell_mic" /\ IsCubic10) =>
    \A i \in 0 .. 2 : -5 <= delta[i] /\ delta[i] < 5

\* C4 amended: in the cubic cell of side 10 cell_mic leaves every component in
\* (-5,5], lower bound excluded and upper bound included: each count x[i] is
\* ceil(f - 0.5) for the projection f of the incoming displacement, so f - x[i]
\* lies in (-1/2, 1/2] and an exact half-way f is rounded down; (7,-3,12)
\* becomes (-3,-3,2).
C4_WrapsIntoUpperClosed ==
  (op = "cell_mic" /\ IsCubic10) =>
    /\ \A i \in 0 .. 2 :
         /\ -5 < delta[i] /\ delta[i] <= 5
         /\ IsCeilHalf(x[i], Frac(cell, delta0, i), GU)
         /\ delta[i] = delta0[i] - 10 * x[i]
    /\ (delta0 = Arr3(<<7, -3, 12>>) => delta = Arr3(<<-3, -3, 2>>))

\* both half-way cases: -5 and 5 are each left at 5
C4_Witness ==
  /\ op = "cell_mic" /\ IsCubic10
  /\ delta0 = Arr3(<<-5, 5, 0>>)
  /\ delta = Arr3(<<5, 5, 0>>)

\* C5 as stated: cell_mic on d, then cell_add_vec with the negated counts x of
\* that cell_mic call, gives d again.
C5_RoundTripNegatedCounts ==
  (cell.nvec \in Dims /\ op0 = "cell_mic" /\ op = "cell_add_vec" /\ r = Neg(x)) =>
    delta = delta00

\* C5 amended: cell_mic on d, then cell_add_vec with the counts x of that
\* cell_mic call themselves (not negated), gives d again.
C5_RoundTripCounts ==
  (cell.nvec \in Dims /\ op0 = "cell_mic" /\ op = "cell_add_vec" /\ r = x) =>
    delta = delta00

C5_Witness ==
  /\ cell.nvec = 3 /\ cell.rvecs = SkewR
  /\ op0 = "cell_mic" /\ op = "cell_add_vec" /\ r = x
  /\ \A k \in 0 .. 2 : x[k] # 0
  /\ delta0 # delta00 /\ delta = delta00

\* C6 as stated: for every Cell with nvec in 0..3, a second cell_mic leaves the
\* result of the first unchanged and all its counts are 0.
C6_IdempotentEveryCell ==
  (cell.nvec \in Dims /\ op0 = "cell_mic" /\ op = "cell_mic") =>
    delta = delta0 /\ x = Zero3

\* C6 amended: for every Cell with nvec in 0..3 whose active gvecs rows are
\* dual to its active rvecs rows, a second cell_mic leaves the result of the
\* first unchanged and all its counts are 0.
C6_IdempotentDualCell ==
  (cell.nvec \in Dims /\ Dual(cell) /\ op0 = "cell_mic" /\ op = "cell_mic") =>
    delta = delta0 /\ x = Zero3

\* skewed cell; the first pass moved the displacement and left its projection
\* on direction 0 exactly at one half
C6_Witness ==
  /\ cell.nvec = 3 /\ cell.rvecs = SkewR /\ cell.gvecs = SkewG
  /\ op0 = "cell_mic" /\ op = "cell_mic"
  /\ delta0 # delta00
  /\ 2 * Frac(cell, delta0, 0) = GU
  /\ delta = delta0

\* C8: with nvec = 0, cell_mic, cell_to_center and cell_add_vec leave the
\* displacement and the center buffer exactly as they were, whatever rvecs,
\* gvecs and r hold.
C8_NvecZeroNoOp ==
  (cell.nvec = 0 /\ op \in {"cell_mic", "cell_to_center", "cell_add_vec"}) =>
    /\ delta = delta0
    /\ center = center0
    /\ (op = "cell_mic" => x = Zero3)

C8_Witness ==
  /\ cell.nvec = 0 /\ cell.rvecs = SkewR
  /\ op = "cell_add_vec" /\ r = LoadCenter
  /\ delta = Arr3(<<7, -3, 12>>) /\ delta0 = delta

\* C9: cell_to_center leaves cart as it was and, for each k < nvec, sets
\* center[k] = -ceil(gvecs[k].cart - 0.5), a function of gvecs row k and the
\* original cart only; center[k] for k >= nvec is left unwritten.
C9_CenterPerAxis ==
  op = "cell_to_center" =>
    /\ delta = delta0
    /\ \A k \in 0 .. 2 :
         IF k < cell.nvec
         THEN IsCeilHalf(0 - center[k], Dot(Row(cell.gvecs, k), delta0), GU)
         ELSE center[k] = center0[k]

\* C9 for the Cells whose nvec is not negative.
C9_CenterPerAxisForValidNvec == cell.nvec >= 0 => C9_CenterPerAxis

\* C10: for nvec in 0..3 and active gvecs rows dual to the active rvecs rows,
\* cell_to_center on v followed by cell_add_vec on v with the center it wrote
\* gives the vector cell_mic gives on v.
C10_CenterThenAddIsMic ==
  (cell.nvec \in Dims /\ Dual(cell)
     /\ op0 = "cell_to_center" /\ op = "cell_add_vec" /\ r = center) =>
    delta = cell_mic(delta0, cell).delta

C10_Witness ==
  /\ cell.nvec = 3 /\ cell.rvecs = SkewR /\ cell.gvecs = SkewG
  /\ op0 = "cell_to_center" /\ op = "cell_add_vec" /\ r = center
  /\ \A k \in 0 .. 2 : center[k] # 0
  /\ delta # delta0

\* C10, second part: without duality the two can differ.
C10_AlsoWithoutDuality ==
  (cell.nvec \in Dims /\ op0 = "cell_to_center" /\ op = "cell_add_vec" /\ r = center) =>
    delta = cell_mic(delta0, cell).delta

====
